---- MODULE Spec2Model ----
(***************************************************************************)
(* Model of the Maxwell transient-solver control program (src/main.py).    *)
(*                                                                         *)
(* One invocation reads solution.ctl (load_solution_file), computes the    *)
(* per-phase excitations and writes user.ctl (write_user_file).  Files are *)
(* texts: sequences of one-character strings, newlines included.  Python   *)
(* dicts are sequences of key/value entries in insertion order.            *)
(***************************************************************************)
EXTENDS Integers, Sequences, FiniteSets, TLC

(***************************************************************************)
(* Bounds of the model.                                                    *)
(***************************************************************************)
MaxLines == 3      \* lines of a solution file
MaxRuns == 2       \* invocations by the solver in SpecRuns
FracDigits == 4    \* decimal places a float of the model resolves

Scale == 10 ^ FracDigits

(***************************************************************************)
(* Text.                                                                   *)
(***************************************************************************)
NL == "\n"
Sp == <<" ">>
Whitespace == {" ", "\t", NL}
Digit == {"0", "1", "2", "3", "4", "5", "6", "7", "8", "9"}

DigitVal(c) ==
    CASE c = "0" -> 0 [] c = "1" -> 1 [] c = "2" -> 2 [] c = "3" -> 3
      [] c = "4" -> 4 [] c = "5" -> 5 [] c = "6" -> 6 [] c = "7" -> 7
      [] c = "8" -> 8 [] c = "9" -> 9

DigitChar(n) ==
    CASE n = 0 -> "0" [] n = 1 -> "1" [] n = 2 -> "2" [] n = 3 -> "3"
      [] n = 4 -> "4" [] n = 5 -> "5" [] n = 6 -> "6" [] n = 7 -> "7"
      [] n = 8 -> "8" [] n = 9 -> "9"

\* ''.join(parts)
RECURSIVE Join(_)
Join(parts) ==
    IF parts = <<>> THEN <<>> ELSE Head(parts) \o Join(Tail(parts))

\* the k-th smallest element of a set of positions
Nth(S, k) == CHOOSE e \in S : Cardinality({x \in S : x <= e}) = k

\* file.readlines(): the text cut after every newline, newline kept
ReadLines(text) ==
    LET n == Len(text)
        ends == {i \in 1..n : text[i] = NL \/ i = n}
    IN [j \in 1..Cardinality(ends) |->
           SubSeq(text, IF j = 1 THEN 1 ELSE Nth(ends, j - 1) + 1, Nth(ends, j))]

\* line.strip().split(): the maximal runs of non-whitespace characters
Split(line) ==
    LET n == Len(line)
        inTok(i) == i >= 1 /\ i <= n /\ line[i] \notin Whitespace
        starts == {i \in 1..n : inTok(i) /\ ~inTok(i - 1)}
        stops == {i \in 1..n : inTok(i) /\ ~inTok(i + 1)}
    IN [j \in 1..Cardinality(starts) |-> SubSeq(line, Nth(starts, j), Nth(stops, j))]

(***************************************************************************)
(* Values and dicts.  A value is a str, an int or a nested dict; a dict is *)
(* the sequence of its entries [k, v] in insertion order.                  *)
(***************************************************************************)
StrV(s) == [tag |-> "str", s |-> s, n |-> 0, d |-> <<>>]
IntV(n) == [tag |-> "int", s |-> <<>>, n |-> n, d |-> <<>>]
DictV(d) == [tag |-> "dict", s |-> <<>>, n |-> 0, d |-> d]

\* position of key in the dict, 0 when absent
IndexOf(d, key) ==
    IF \E i \in 1..Len(d) : d[i].k = key
    THEN CHOOSE i \in 1..Len(d) : d[i].k = key
    ELSE 0

\* key in d
Has(d, key) == IndexOf(d, key) # 0

\* d[key]
Get(d, key) == d[IndexOf(d, key)].v

\* Put with a new key placed first: a dict that loses the insertion order
Put_front(d, key, v) ==
    IF Has(d, key)
    THEN [d EXCEPT ![IndexOf(d, key)] = [k |-> key, v |-> v]]
    ELSE <<[k |-> key, v |-> v]>> \o d

\* d[key] = v: a present key keeps its position, a new key goes last
Put(d, key, v) ==
    IF Has(d, key)
    THEN [d EXCEPT ![IndexOf(d, key)] = [k |-> key, v |-> v]]
    ELSE Append(d, [k |-> key, v |-> v])

\* list(d.keys())
Keys(d) == [i \in 1..Len(d) |-> d[i].k]

(***************************************************************************)
(* load_solution_file                                                      *)
(***************************************************************************)
time == <<"t", "i", "m", "e">>
windingEmf == <<"w", "i", "n", "d", "i", "n", "g", "E", "m", "f">>

\* the body of the for loop: one line applied to the record
ProcessLine(sol, line) ==
    LET split_line == Split(line) IN
    IF Len(split_line) = 0 THEN [err |-> "IndexError", sol |-> sol]
    ELSE LET key == split_line[1] IN
         IF Len(split_line) > 2
         THEN IF ~Has(sol, key)
              THEN [err |-> "none",
                    sol |-> Put(sol, key,
                                DictV(<<[k |-> split_line[2], v |-> split_line[3]]>>))]
              ELSE IF Get(sol, key).tag = "dict"
                   THEN [err |-> "none",
                         sol |-> Put(sol, key,
                                     DictV(Put(Get(sol, key).d, split_line[2], split_line[3])))]
                   ELSE [err |-> "TypeError", sol |-> sol]
         ELSE IF Len(split_line) = 2
              THEN [err |-> "none", sol |-> Put(sol, key, StrV(split_line[2]))]
              ELSE [err |-> "none", sol |-> sol]

\* the for loop over the lines read; the first exception ends it
RECURSIVE LoadLines(_, _)
LoadLines(data, sol) ==
    IF data = <<>> THEN [err |-> "none", sol |-> sol]
    ELSE LET r == ProcessLine(sol, Head(data)) IN
         IF r.err # "none" THEN r ELSE LoadLines(Tail(data), r.sol)

NoFile == <<"<absent>">>

\* load_solution_file handing out the bootstrap record for an empty file too
load_solution_file_default(file) ==
    IF file # NoFile /\ file # <<>>
    THEN LoadLines(ReadLines(file), <<>>)
    ELSE [err |-> "none", sol |-> <<[k |-> time, v |-> IntV(-1)]>>]

\* load_solution_file(path) on the file content, NoFile for a missing file
load_solution_file(file) ==
    IF file # NoFile
    THEN LoadLines(ReadLines(file), <<>>)
    ELSE [err |-> "none", sol |-> <<[k |-> time, v |-> IntV(-1)]>>]

(***************************************************************************)
(* Floats.  A float is a sign and a magnitude in units of 1/Scale, so that *)
(* -0.0 and 0.0 differ as they do in Python.  float() is modelled on the   *)
(* decimal literals [sign] digits [. digits]; repr() on the magnitudes     *)
(* that Python prints without an exponent.                                 *)
(***************************************************************************)
Float(neg, mag) == [neg |-> neg, mag |-> mag]

RECURSIVE DecValue(_)
DecValue(ds) ==
    IF ds = <<>> THEN 0
    ELSE DecValue(SubSeq(ds, 1, Len(ds) - 1)) * 10 + DigitVal(ds[Len(ds)])

RECURSIVE DecDigits(_)
DecDigits(n) ==
    IF n < 10 THEN <<DigitChar(n)>>
    ELSE DecDigits(n \div 10) \o <<DigitChar(n % 10)>>

RECURSIVE FixedDigits(_, _)
FixedDigits(n, w) ==
    IF w = 0 THEN <<>>
    ELSE FixedDigits(n \div 10, w - 1) \o <<DigitChar(n % 10)>>

RECURSIVE StripZeros(_)
StripZeros(ds) ==
    IF Len(ds) > 1 /\ ds[Len(ds)] = "0"
    THEN StripZeros(SubSeq(ds, 1, Len(ds) - 1))
    ELSE ds

\* str(n) of an int
IntStr(n) == IF n < 0 THEN <<"-">> \o DecDigits(0 - n) ELSE DecDigits(n)

\* float(s) of a str
ParseFloat(s) ==
    LET signed == s # <<>> /\ Head(s) \in {"+", "-"}
        body == IF signed THEN Tail(s) ELSE s
        dots == {i \in 1..Len(body) : body[i] = "."}
        dot == IF dots = {} THEN Len(body) + 1 ELSE CHOOSE i \in dots : TRUE
        ints == SubSeq(body, 1, dot - 1)
        fracs == SubSeq(body, dot + 1, Len(body))
        padded == fracs \o [i \in 1..FracDigits |-> "0"]
    IN IF /\ Cardinality(dots) <= 1
          /\ \A i \in 1..Len(body) : body[i] \in Digit \cup {"."}
          /\ Len(ints) + Len(fracs) > 0
       THEN [err |-> "none",
             val |-> Float(signed /\ Head(s) = "-",
                           DecValue(ints) * Scale
                             + DecValue(SubSeq(padded, 1, FracDigits)))]
       ELSE [err |-> "ValueError", val |-> Float(FALSE, 0)]

\* float(v) of a value of the record
ToFloat(v) ==
    CASE v.tag = "str" -> ParseFloat(v.s)
      [] v.tag = "int" -> [err |-> "none",
                           val |-> Float(v.n < 0, (IF v.n < 0 THEN 0 - v.n ELSE v.n) * Scale)]
      [] v.tag = "dict" -> [err |-> "TypeError", val |-> Float(FALSE, 0)]

\* FormatFloat printing a whole number without its ".0"
FormatFloat_bare(x) ==
    (IF x.neg THEN <<"-">> ELSE <<>>)
      \o DecDigits(x.mag \div Scale)
      \o (IF x.mag % Scale = 0 THEN <<>>
          ELSE <<".">> \o StripZeros(FixedDigits(x.mag % Scale, FracDigits)))

\* repr(x) of a float, as the f-string and str.format print it
FormatFloat(x) ==
    (IF x.neg THEN <<"-">> ELSE <<>>)
      \o DecDigits(x.mag \div Scale)
      \o <<".">>
      \o StripZeros(FixedDigits(x.mag % Scale, FracDigits))

\* x == -1
IsMinusOne(x) == x.neg /\ x.mag = Scale

(***************************************************************************)
(* Machine constants.  imax is num/den * sqrt(root); fill_factor 0.5 is    *)
(* the fraction 5/10.                                                      *)
(***************************************************************************)
current_density == 10
slot_size == 100
fill_factor == [num |-> 5, den |-> 10]
turns == 29
irms == [num |-> current_density * slot_size * fill_factor.num,
         den |-> fill_factor.den * turns]
imax == [num |-> irms.num, den |-> irms.den, root |-> 2]
pole == 2
speed == 120000
freq == (pole * speed) \div (2 * 60)

(***************************************************************************)
(* write_user_file.  An excitation is kept exact: the amplitude and the    *)
(* angle as a fraction num/den of a full turn, amp * sin(2 pi num/den).    *)
(* Its text stands for the digits np.float64 prints: one token spelling    *)
(* that expression.                                                        *)
(***************************************************************************)
begin_data == <<"b", "e", "g", "i", "n", "_", "d", "a", "t", "a">>
end_data == <<"e", "n", "d", "_", "d", "a", "t", "a">>
windingSrc == <<"w", "i", "n", "d", "i", "n", "g", "S", "r", "c">>
windingR == <<"w", "i", "n", "d", "i", "n", "g", "R">>
windingL == <<"w", "i", "n", "d", "i", "n", "g", "L">>

\* Excitation with the phase shift added instead of subtracted
Excitation_lead(t, num_phases, phase) ==
    [amp |-> imax,
     num |-> freq * (IF t.neg THEN 0 - t.mag ELSE t.mag) * num_phases + phase * Scale,
     den |-> num_phases * Scale]

\* imax * np.sin(2 * np.pi * freq * t - 2 * np.pi / num_phases * phase)
Excitation(t, num_phases, phase) ==
    [amp |-> imax,
     num |-> freq * (IF t.neg THEN 0 - t.mag ELSE t.mag) * num_phases - phase * Scale,
     den |-> num_phases * Scale]

\* str(x) of the np.float64 an excitation is
NpStr(e) ==
    <<"s", "i", "n", "(">> \o IntStr(e.num) \o <<"/">> \o IntStr(e.den) \o <<")">>

\* Winding(src, R, L, name)
Winding(src, R, L, name) == [name |-> name, src |-> src, R |-> R, L |-> L]

\* WindingStr with the windingL line put before the windingR line
WindingStr_swapped(w) ==
    windingSrc \o Sp \o w.name \o Sp \o NpStr(w.src) \o <<NL>>
      \o windingL \o Sp \o w.name \o Sp \o IntStr(w.L) \o <<NL>>
      \o windingR \o Sp \o w.name \o Sp \o FormatFloat(w.R) \o <<NL>>

\* Winding.__str__: excitation_template.format(...)
WindingStr(w) ==
    windingSrc \o Sp \o w.name \o Sp \o NpStr(w.src) \o <<NL>>
      \o windingR \o Sp \o w.name \o Sp \o FormatFloat(w.R) \o <<NL>>
      \o windingL \o Sp \o w.name \o Sp \o IntStr(w.L) \o <<NL>>

\* lines 98-116 of write_user_file: the list `output`, or the exception
ComputeOutput(s) ==
    LET fail(e) == [err |-> e, output |-> <<>>, excitations |-> <<>>] IN
    IF ~Has(s, time) THEN fail("KeyError")
    ELSE LET conv == ToFloat(Get(s, time))
             current_timestamp == conv.val
             head == <<begin_data \o <<NL>>,
                       time \o Sp \o FormatFloat(current_timestamp) \o <<NL>>>>
         IN IF conv.err # "none" THEN fail(conv.err)
            ELSE IF IsMinusOne(current_timestamp)
            THEN [err |-> "none",
                  output |-> Append(head, end_data \o <<NL>>),
                  excitations |-> <<>>]
            ELSE IF ~Has(s, windingEmf) THEN fail("KeyError")
            ELSE IF Get(s, windingEmf).tag # "dict" THEN fail("AttributeError")
            ELSE LET winding_names == Keys(Get(s, windingEmf).d)
                     num_phases == Len(winding_names)
                     exc == [i \in 1..num_phases |->
                                Excitation(current_timestamp, num_phases, i - 1)]
                     body == [i \in 1..num_phases |->
                                WindingStr(Winding(exc[i], Float(FALSE, Scale \div 10),
                                                   0, winding_names[i]))]
                 IN [err |-> "none",
                     output |-> Append(head \o body, end_data \o <<NL>>),
                     excitations |-> exc]

\* WriteText that appends whatever the mode
WriteText_append(old, mode, out) ==
    IF old = NoFile THEN Join(out) ELSE old \o Join(out)

\* lines 119-120: open(user_file_name, mode) and write(''.join(output))
WriteText(old, mode, out) ==
    IF mode = "w" \/ old = NoFile THEN Join(out) ELSE old \o Join(out)

(***************************************************************************)
(* Inputs: the solution files the solver may leave, built from a pool of   *)
(* lines, and the control file found at the first invocation.              *)
(***************************************************************************)
LinePool ==
    { time \o Sp \o <<"-", "1">>,
      time \o Sp \o <<"-", "1", ".", "0">>,
      time \o Sp \o <<"0", ".", "0", "0", "0", "5">>,
      time \o Sp \o <<"a", "b", "c">>,
      windingEmf \o Sp \o <<"A">> \o Sp \o <<"1", ".", "5">>,
      windingEmf \o Sp \o Sp \o <<"B">> \o Sp \o <<"2">> \o Sp \o <<"z">> \o Sp,
      windingEmf \o Sp \o <<"A">> \o Sp \o <<"3">>,
      windingEmf \o Sp \o <<"7">>,
      <<"x">>,
      <<" ", "\t">>,
      <<>> }

\* the text of a file holding the given lines
FileOf(ls) == Join([i \in 1..Len(ls) |-> ls[i] \o <<NL>>])

SolutionFiles ==
    {NoFile} \cup {FileOf(ls) : ls \in UNION {[1..n -> LinePool] : n \in 0..MaxLines}}

SolverFiles ==
    { NoFile,
      <<>>,
      FileOf(<<time \o Sp \o <<"-", "1">>>>),
      FileOf(<<time \o Sp \o <<"0", ".", "0", "0", "0", "5">>>>),
      FileOf(<<time \o Sp \o <<"0", ".", "0", "0", "0", "5">>,
               windingEmf \o Sp \o <<"A">> \o Sp \o <<"1", ".", "5">>>>),
      FileOf(<<windingEmf \o Sp \o <<"B">> \o Sp \o <<"2">>,
               time \o Sp \o <<"0", ".", "0", "0", "0", "5">>,
               windingEmf \o Sp \o <<"A">> \o Sp \o <<"1", ".", "5">>>>),
      FileOf(<<time \o Sp \o <<"a", "b", "c">>>>),
      FileOf(<<<<>>>>) }

OldCtl == Join(<<begin_data \o <<NL>>, <<"o", "l", "d">> \o <<NL>>, end_data \o <<NL>>>>)

Modes == {"w", "a"}

(***************************************************************************)
(* State.                                                                  *)
(***************************************************************************)
VARIABLES
    solution_ctl,   \* text of solution.ctl, NoFile when it does not exist
    user_ctl,       \* text of user.ctl, NoFile when it does not exist
    pc,             \* "main", "loaded", "computed", "done", "failed"
    sol,            \* the record load_solution_file returned
    raised,         \* the exception that ended the run and the function it left
    output,         \* the list `output` of write_user_file
    excitations,    \* the values of `excitation`, one per loop iteration
    mode,           \* the mode user.ctl was opened with
    user_before,    \* user.ctl as the invocation found it
    writes,         \* writes to user.ctl in this invocation
    runs,           \* invocations so far
    prev            \* the previous invocation: its record and the file it left

vars == <<solution_ctl, user_ctl, pc, sol, raised, output, excitations, mode,
          user_before, writes, runs, prev>>

NotRaised == [exc |-> "none", in |-> "none"]

NoPrev == [valid |-> FALSE, sol |-> <<>>, text |-> <<>>]

InitWith(files) ==
    /\ solution_ctl \in files
    /\ user_ctl \in {NoFile, OldCtl}
    /\ user_before = user_ctl
    /\ pc = "main"
    /\ sol = <<>>
    /\ raised = NotRaised
    /\ output = <<>>
    /\ excitations = <<>>
    /\ mode = "w"
    /\ writes = 0
    /\ runs = 1
    /\ prev = NoPrev

Init == InitWith(SolutionFiles)

InitRuns == InitWith(SolverFiles)

\* solution = load_solution_file()
Load ==
    /\ pc = "main"
    /\ LET r == load_solution_file(solution_ctl) IN
         /\ raised' = IF r.err = "none" THEN NotRaised
                      ELSE [exc |-> r.err, in |-> "load_solution_file"]
         /\ sol' = IF r.err = "none" THEN r.sol ELSE <<>>
         /\ pc' = IF r.err = "none" THEN "loaded" ELSE "failed"
    /\ UNCHANGED <<solution_ctl, user_ctl, output, excitations, mode,
                   user_before, writes, runs, prev>>

\* Compute with user.ctl opened, and so truncated, before the block is built
Compute_truncating ==
    /\ pc = "loaded"
    /\ LET r == ComputeOutput(sol) IN
         /\ raised' = IF r.err = "none" THEN NotRaised
                      ELSE [exc |-> r.err, in |-> "write_user_file"]
         /\ output' = r.output
         /\ excitations' = r.excitations
         /\ pc' = IF r.err = "none" THEN "computed" ELSE "failed"
    /\ user_ctl' = <<>>
    /\ UNCHANGED <<solution_ctl, sol, mode, user_before, writes, runs, prev>>

\* write_user_file(solution) up to the open: the block is built in memory
Compute ==
    /\ pc = "loaded"
    /\ LET r == ComputeOutput(sol) IN
         /\ raised' = IF r.err = "none" THEN NotRaised
                      ELSE [exc |-> r.err, in |-> "write_user_file"]
         /\ output' = r.output
         /\ excitations' = r.excitations
         /\ pc' = IF r.err = "none" THEN "computed" ELSE "failed"
    /\ UNCHANGED <<solution_ctl, user_ctl, sol, mode, user_before, writes,
                   runs, prev>>

\* write_user_file(solution) from the open on, then sys.exit(0)
WriteFile ==
    /\ pc = "computed"
    /\ \E m \in Modes :
         /\ mode' = m
         /\ user_ctl' = WriteText(user_ctl, m, output)
    /\ writes' = writes + 1
    /\ pc' = "done"
    /\ UNCHANGED <<solution_ctl, sol, raised, output, excitations,
                   user_before, runs, prev>>

\* the solver solves the next time step and calls the program again
SolverStep ==
    /\ pc \in {"done", "failed"}
    /\ runs < MaxRuns
    /\ solution_ctl' \in SolverFiles
    /\ prev' = IF pc = "done" /\ mode = "w"
               THEN [valid |-> TRUE, sol |-> sol, text |-> user_ctl]
               ELSE NoPrev
    /\ user_before' = user_ctl
    /\ pc' = "main"
    /\ sol' = <<>>
    /\ raised' = NotRaised
    /\ output' = <<>>
    /\ excitations' = <<>>
    /\ mode' = "w"
    /\ writes' = 0
    /\ runs' = runs + 1
    /\ UNCHANGED user_ctl

Next == Load \/ Compute \/ WriteFile

NextRuns == Load \/ Compute \/ WriteFile \/ SolverStep

Spec == Init /\ [][Next]_vars

SpecRuns == InitRuns /\ [][NextRuns]_vars

(***************************************************************************)
(* Properties.                                                             *)
(***************************************************************************)
\* what the write put into user.ctl: the whole file, or the part appended
Written ==
    IF mode = "a" /\ user_before # NoFile
    THEN SubSeq(user_ctl, Len(user_before) + 1, Len(user_ctl))
    ELSE user_ctl

\* the record's time as a signed number of 1/Scale
TimeOf(s) == ToFloat(Get(s, time)).val

MinusOne == [neg |-> TRUE, mag |-> Scale]

BootstrapBlock ==
    begin_data \o <<NL>> \o time \o Sp \o <<"-", "1", ".", "0">> \o <<NL>>
      \o end_data \o <<NL>>

\* the record the reader got ended in a written control file
Wrote == pc = "done"

\* C1: every record whose time converts to -1, with or without windingEmf
\* entries, is written as exactly the lines begin_data, time -1.0, end_data.
C1_BootstrapBlock ==
    (Wrote /\ TimeOf(sol) = MinusOne) => Written = BootstrapBlock

C1_Witness ==
    /\ Wrote
    /\ TimeOf(sol) = MinusOne
    /\ Has(sol, windingEmf)
    /\ Get(sol, time).tag = "str"
    /\ Written = BootstrapBlock

\* C2: a missing solution file is read as the record {time: "-1"}, the value
\* being the string "-1".
C2_MissingFileRecord ==
    (solution_ctl = NoFile /\ pc # "main")
        => /\ raised.in # "load_solution_file"
           /\ sol = <<[k |-> time, v |-> StrV(<<"-", "1">>)]>>

\* the file without its blank, whitespace-only and one-token lines
CleanFile(text) ==
    Join(SelectSeq(ReadLines(text), LAMBDA l : Len(Split(l)) >= 2))

\* the exception load_solution_file raised in this run, "none" otherwise
LoadRaised == IF raised.in = "load_solution_file" THEN raised.exc ELSE "none"

\* C3: one-token, blank and whitespace-only lines are skipped silently: the
\* reader does on the file what it does on the file without those lines.
C3_SkippedLines ==
    (solution_ctl # NoFile /\ pc # "main")
        => LET clean == load_solution_file(CleanFile(solution_ctl)) IN
           /\ LoadRaised = clean.err
           /\ LoadRaised = "none" => sol = clean.sol

\* C4: a line of three or more tokens [key, subkey, value, ...], whatever the
\* record held for key before it, leaves record[key] a nested mapping with
\* record[key][subkey] = value and every other subkey kept.  Stated of the
\* last line of the file, the lines before it having been read.
C4_GroupedLine ==
    LET lines == ReadLines(solution_ctl)
        n == Len(lines)
        toks == Split(lines[n])
        before == LoadLines(SubSeq(lines, 1, n - 1), <<>>)
        old == Get(before.sol, toks[1])
    IN (/\ solution_ctl # NoFile
        /\ pc # "main"
        /\ n >= 1
        /\ Len(toks) >= 3
        /\ before.err = "none")
        => /\ LoadRaised = "none"
           /\ Has(sol, toks[1])
           /\ Get(sol, toks[1]).tag = "dict"
           /\ Has(Get(sol, toks[1]).d, toks[2])
           /\ Get(Get(sol, toks[1]).d, toks[2]) = toks[3]
           /\ (Has(before.sol, toks[1]) /\ old.tag = "dict")
                => \A i \in 1..Len(old.d) :
                     old.d[i].k # toks[2]
                       => /\ Has(Get(sol, toks[1]).d, old.d[i].k)
                          /\ Get(Get(sol, toks[1]).d, old.d[i].k) = old.d[i].v

\* the names in seq, each once, in the order first met
RECURSIVE FirstSeen(_, _)
FirstSeen(seq, seen) ==
    IF seq = <<>> THEN seen
    ELSE FirstSeen(Tail(seq),
                   IF \E i \in 1..Len(seen) : seen[i] = Head(seq)
                   THEN seen ELSE Append(seen, Head(seq)))

\* the winding names of the solution file in the order first encountered
NamesInFile(text) ==
    LET grouped == SelectSeq(ReadLines(text),
                             LAMBDA l : Len(Split(l)) >= 3 /\ Split(l)[1] = windingEmf)
    IN FirstSeen([i \in 1..Len(grouped) |-> Split(grouped[i])[2]], <<>>)

\* C5: with time # -1 and N winding names, the control file holds between
\* the time line and end_data exactly 3N lines: per winding, in the order
\* its name was first met in the solution file, windingSrc, windingR,
\* windingL, each tagged with the name.
C5_WindingLines ==
    (Wrote /\ TimeOf(sol) # MinusOne)
        => LET names == NamesInFile(solution_ctl)
               N == Len(names)
               lines == ReadLines(Written)
               tagged(l, kw, nm) ==
                   /\ Len(Split(l)) = 3
                   /\ Split(l)[1] = kw
                   /\ Split(l)[2] = nm
           IN /\ N = Len(Get(sol, windingEmf).d)
              /\ Len(lines) = 3 * N + 3
              /\ Split(lines[2])[1] = time
              /\ lines[3 * N + 3] = end_data \o <<NL>>
              /\ \A i \in 1..N :
                   /\ tagged(lines[3 * i], windingSrc, names[i])
                   /\ tagged(lines[3 * i + 1], windingR, names[i])
                   /\ tagged(lines[3 * i + 2], windingL, names[i])

C5_Witness ==
    /\ Wrote
    /\ TimeOf(sol) # MinusOne
    /\ NamesInFile(solution_ctl) = <<<<"B">>, <<"A">>>>
    /\ Len(ReadLines(Written)) = 9
    /\ Split(ReadLines(Written)[3])[2] = <<"B">>
    /\ Split(ReadLines(Written)[8])[2] = <<"A">>

\* t as a signed number of 1/Scale
Signed(x) == IF x.neg THEN 0 - x.mag ELSE x.mag

\* C6: with N winding names and time t # -1, the source value emitted for
\* the winding at 0-based position i is imax * sin(2 pi freq t - (2 pi/N) i),
\* imax = current_density * slot_size * fill_factor / turns * sqrt(2) and
\* freq = (pole/2) * speed / 60: as a fraction of a turn the angle is
\* (freq * t * N - i) / N.
C6_Excitation ==
    (Wrote /\ TimeOf(sol) # MinusOne)
        => LET names == NamesInFile(solution_ctl)
               N == Len(names)
               T == Signed(TimeOf(sol))
               F == ((pole \div 2) * speed) \div 60
               lines == ReadLines(Written)
           IN /\ Len(excitations) = N
              /\ \A p \in 0..(N - 1) :
                   LET e == excitations[p + 1] IN
                   /\ e.den = N * Scale
                   /\ e.num = F * T * N - p * Scale
                   /\ e.amp.root = 2
                   /\ e.amp.num * turns * fill_factor.den
                        = current_density * slot_size * fill_factor.num * e.amp.den
                   /\ Split(lines[3 * (p + 1)])[2] = names[p + 1]
                   /\ Split(lines[3 * (p + 1)])[3] = NpStr(e)

C6_Witness ==
    /\ Wrote
    /\ Signed(TimeOf(sol)) = 5 * (Scale \div 10000)
    /\ Len(excitations) = 2
    /\ excitations[1].num = excitations[1].den
    /\ 2 * excitations[2].num = excitations[2].den
    /\ Split(ReadLines(Written)[6])[3] = NpStr(excitations[2])

\* C7: an existing but empty solution file is read as the empty record, not
\* as the bootstrap record, and write_user_file fails, writing nothing, on
\* every record without time and on every record with time # -1 and no
\* windingEmf.
C7_MissingKeyFatal ==
    /\ [](/\ (solution_ctl = <<>> /\ pc # "main")
                => (sol = <<>> /\ LoadRaised = "none" /\ pc # "main")
          /\ pc \in {"computed", "done"}
                => /\ Has(sol, time)
                   /\ TimeOf(sol) # MinusOne => Has(sol, windingEmf))
    /\ [][(pc = "loaded" /\ (~Has(sol, time) \/ ~Has(sol, windingEmf))
             /\ (Has(sol, time) => ToFloat(Get(sol, time)) # [err |-> "none", val |-> MinusOne]))
            => (/\ pc' = "failed"
                /\ raised'.in = "write_user_file"
                /\ user_ctl' = user_ctl)]_vars

C7_Witness ==
    /\ solution_ctl = <<>>
    /\ sol = <<>>
    /\ pc = "failed"
    /\ raised = [exc |-> "KeyError", in |-> "write_user_file"]
    /\ user_ctl = user_before

\* C8: a control file write_user_file produced is read back by
\* load_solution_file without error, as a record whose scalar time is the
\* time written and in which windingSrc, windingR and windingL are nested
\* mappings keyed by the winding names written, in the same order.
C8_RoundTrip ==
    (Wrote /\ (mode = "w" \/ user_before = NoFile))
        => LET back == load_solution_file(user_ctl)
               group(kw) == Get(back.sol, kw)
               names == IF TimeOf(sol) = MinusOne THEN <<>>
                        ELSE Keys(Get(sol, windingEmf).d)
               grouped(kw) ==
                   /\ Has(back.sol, kw)
                   /\ group(kw).tag = "dict"
                   /\ Keys(group(kw).d) = names
           IN /\ back.err = "none"
              /\ Has(back.sol, time)
              /\ Get(back.sol, time).tag = "str"
              /\ ToFloat(Get(back.sol, time)) = [err |-> "none", val |-> TimeOf(sol)]
              /\ names # <<>>
                   => grouped(windingSrc) /\ grouped(windingR) /\ grouped(windingL)
              /\ names = <<>> => Len(back.sol) = 1

C8_Witness ==
    /\ Wrote
    /\ mode = "w"
    /\ TimeOf(sol) # MinusOne
    /\ Len(Get(sol, windingEmf).d) = 2
    /\ Keys(Get(load_solution_file(user_ctl).sol, windingL).d)
         = Keys(Get(sol, windingEmf).d)

\* C9: in mode 'w' a successful write leaves user.ctl holding exactly the
\* block computed from the record, whatever it held before, so that a second
\* run on the same record leaves the file the first run left.
C9_TruncateWrite ==
    (Wrote /\ mode = "w")
        => /\ user_ctl = Join(output)
           /\ (prev.valid /\ prev.sol = sol) => user_ctl = prev.text

C9_Witness ==
    /\ Wrote
    /\ mode = "w"
    /\ prev.valid
    /\ prev.sol = sol
    /\ user_before = prev.text
    /\ user_ctl = prev.text
    /\ Len(excitations) = 1

\* C10: an invocation writes user.ctl at most once, and only once the
\* solution file is read and the whole block from begin_data to end_data is
\* computed; a run that fails in the reader or in the writer's conversions
\* leaves user.ctl as it found it, and no partial block is written.
C10_SingleWrite ==
    /\ writes <= 1
    /\ writes = 0 => user_ctl = user_before
    /\ pc = "failed" => writes = 0
    /\ writes = 1
         => /\ pc = "done"
            /\ raised = NotRaised
            /\ Written = Join(output)
            /\ LET lines == ReadLines(Written) IN
               /\ Len(lines) >= 3
               /\ lines[1] = begin_data \o <<NL>>
               /\ lines[Len(lines)] = end_data \o <<NL>>

C10_Witness ==
    /\ pc = "failed"
    /\ raised = [exc |-> "ValueError", in |-> "write_user_file"]
    /\ prev.valid
    /\ user_ctl = prev.text
    /\ runs = 2

====
